---- MODULE Spec2Model ----
(***************************************************************************)
(* Multi-armed bandit decision engine: the three agents (EpsilonGreedy,    *)
(* UCB, ThompsonSampling) of src/src/agents and the request handlers of    *)
(* src/src/api that drive them.                                            *)
(*                                                                         *)
(* Floats are modelled as exact rationals <<num, den>> in lowest terms.    *)
(* Rewards, epsilon and the uniform draws of np.random.random() range over *)
(* a grid of rationals in [0,1] (draws in [0,1)).                          *)
(***************************************************************************)
EXTENDS Integers, Sequences, FiniteSets, TLC

VARIABLES
    agent,       \* the agent object: fields of BaseAgent and of its subclass
    last,        \* the last call made on the agent and its outcome
    selections,  \* the results of the first n_arms select_arm calls, in order
    nUpdates,    \* number of update calls that returned without raising
    sums,        \* per arm: the sum of the rewards the accepted updates gave it
    awaiting,    \* arm returned by a select_arm and not yet reported, if any
    paired,      \* every select_arm so far was followed by update(returned arm, r)
    pc,          \* per request thread: position inside the handler it runs
    req,         \* per request thread: the call it runs and its local variables
    done,        \* per request thread: outcomes of the calls it has completed
    experiments, \* ExperimentManager.experiments: name -> agent, created_at, algorithm
    store,       \* the files of storage_dir: name -> content of <name>.json
    resp,        \* the last call made on the manager and its outcome
    clock,       \* datetime.now(), counted in calls made on the manager
    deleted      \* names removed by DELETE and not created again since

vars == <<agent, last, selections, nUpdates, sums, awaiting, paired, pc, req, done,
          experiments, store, resp, clock, deleted>>

\* the state of the experiment manager and of its storage directory
Registry == <<experiments, store, resp, clock, deleted>>

-----------------------------------------------------------------------------
(* Bounds of the model *)

MaxArms == 2

MaxPulls == 3

Grid == 2

-----------------------------------------------------------------------------
(* Exact rationals standing for float64 values *)

RECURSIVE GCD(_, _)
GCD(a, b) ==
    IF b = 0 THEN a ELSE GCD(b, a % b)

Abs(x) ==
    IF x < 0 THEN -x ELSE x

Rat(n, d) ==
    LET g == GCD(Abs(n), Abs(d))
        s == IF d < 0 THEN -1 ELSE 1
    IN  <<(s * n) \div g, (s * d) \div g>>

RAdd(a, b) ==
    Rat(a[1] * b[2] + b[1] * a[2], a[2] * b[2])

RMul(a, b) ==
    Rat(a[1] * b[1], a[2] * b[2])

RLess(a, b) ==
    a[1] * b[2] < b[1] * a[2]

RZero ==
    <<0, 1>>

ROne ==
    <<1, 1>>

\* reward: float = Field(..., ge=0.0, le=1.0)
Rewards ==
    {RZero, Rat(Grid \div 2, Grid), ROne}

\* np.random.random(): uniform over [0.0, 1.0)
Draws ==
    {Rat(k, Grid) : k \in 0 .. (Grid - 1)}

Epsilons ==
    {RZero, Rat(1, Grid)}

Algorithms ==
    {"epsilon_greedy", "ucb", "thompson_sampling"}

-----------------------------------------------------------------------------
(* Agents *)

Arms(ag) ==
    0 .. (ag.n_arms - 1)

\* [f"Arm_{i}" for i in range(n_arms)]
DefaultArmNames(n) ==
    [k \in 1 .. n |-> "Arm_" \o ToString(k - 1)]

\* variant of BaseAgent that starts every value estimate at 1 (optimistic start)
BaseAgentOptimistic(alg, n) ==
    [algorithm    |-> alg,
     n_arms       |-> n,
     arm_names    |-> DefaultArmNames(n),
     counts       |-> [i \in 0 .. (n - 1) |-> 0],
     values       |-> [i \in 0 .. (n - 1) |-> ROne],
     total_reward |-> RZero,
     total_pulls  |-> 0,
     epsilon      |-> RZero,
     c            |-> 0,
     pending      |-> {},
     alpha        |-> <<>>,
     beta         |-> <<>>]

\* BaseAgent.__init__: counts and values are zero arrays, accumulators are 0
BaseAgent(alg, n) ==
    [algorithm    |-> alg,
     n_arms       |-> n,
     arm_names    |-> DefaultArmNames(n),
     counts       |-> [i \in 0 .. (n - 1) |-> 0],
     values       |-> [i \in 0 .. (n - 1) |-> RZero],
     total_reward |-> RZero,
     total_pulls  |-> 0,
     epsilon      |-> RZero,
     c            |-> 0,
     pending      |-> {},
     alpha        |-> <<>>,
     beta         |-> <<>>]

EpsilonGreedy(n, eps) ==
    [BaseAgent("epsilon_greedy", n) EXCEPT !.epsilon = eps]

DefaultC == 2

UCB(n, c) ==
    [BaseAgent("ucb", n) EXCEPT !.c = c, !.pending = {}]

ThompsonSampling(n) ==
    [BaseAgent("thompson_sampling", n) EXCEPT
        !.alpha = [i \in 0 .. (n - 1) |-> 1],
        !.beta = [i \in 0 .. (n - 1) |-> 1]]

\* self.arm_names = arm_names or [...]: an empty list counts as none given
WithArmNames(ag, arm_names) ==
    IF arm_names = <<>> THEN ag ELSE [ag EXCEPT !.arm_names = arm_names]

\* numpy indexing: an index in [-n, n) is accepted, negative ones count from the end
InRange(n, arm) ==
    (-n <= arm) /\ (arm < n)

Resolve(n, arm) ==
    IF arm < 0 THEN arm + n ELSE arm

-----------------------------------------------------------------------------
(* BaseAgent.update and its overrides.  Each yields the agent after the     *)
(* call and the exception raised, if any.                                   *)

\* variant of IncrementalMean that weighs the old value and the reward equally
IncrementalMeanHalf(n, value, reward) ==
    RMul(Rat(1, 2), RAdd(value, reward))

\* values[arm] = ((n - 1) / n) * value + (1 / n) * reward
IncrementalMean(n, value, reward) ==
    RAdd(RMul(Rat(n - 1, n), value), RMul(Rat(1, n), reward))

\* variant of BaseUpdate that omits  self.total_pulls += 1
BaseUpdateNoTotal(ag, arm, reward) ==
    IF ~InRange(ag.n_arms, arm)
    THEN [agent |-> ag, err |-> "IndexError"]
    ELSE LET i == Resolve(ag.n_arms, arm)
             n == ag.counts[i] + 1
         IN  [agent |-> [ag EXCEPT
                            !.counts[i] = n,
                            !.total_reward = RAdd(@, reward),
                            !.values[i] = IncrementalMean(n, @, reward)],
              err |-> "none"]

BaseUpdate(ag, arm, reward) ==
    IF ~InRange(ag.n_arms, arm)
    THEN [agent |-> ag, err |-> "IndexError"]
    ELSE LET i == Resolve(ag.n_arms, arm)
             n == ag.counts[i] + 1
         IN  [agent |-> [ag EXCEPT
                            !.counts[i] = n,
                            !.total_pulls = @ + 1,
                            !.total_reward = RAdd(@, reward),
                            !.values[i] = IncrementalMean(n, @, reward)],
              err |-> "none"]

\* variant of UCBUpdate that leaves the arm in pending
UCBUpdateKeepsPending(ag, arm, reward) ==
    BaseUpdate(ag, arm, reward)

\* self._pending.discard(arm), then the base update
UCBUpdate(ag, arm, reward) ==
    BaseUpdate([ag EXCEPT !.pending = @ \ {arm}], arm, reward)

\* variant of BernoulliSuccess:  reward >= np.random.random()
BernoulliSuccessGeq(reward, u) ==
    ~RLess(reward, u)

\* if reward > np.random.random(): alpha[arm] += 1  else: beta[arm] += 1
BernoulliSuccess(reward, u) ==
    RLess(u, reward)

\* variant of ThompsonUpdate without the else branch  beta[arm] += 1
ThompsonUpdateNoFailure(ag, arm, reward, u) ==
    LET b == BaseUpdate(ag, arm, reward)
        i == Resolve(ag.n_arms, arm)
    IN  IF b.err # "none"
        THEN b
        ELSE IF RLess(u, reward)
             THEN [b EXCEPT !.agent.alpha[i] = @ + 1]
             ELSE b

ThompsonUpdate(ag, arm, reward, u) ==
    LET b == BaseUpdate(ag, arm, reward)
        i == Resolve(ag.n_arms, arm)
    IN  IF b.err # "none"
        THEN b
        ELSE IF BernoulliSuccess(reward, u)
             THEN [b EXCEPT !.agent.alpha[i] = @ + 1]
             ELSE [b EXCEPT !.agent.beta[i] = @ + 1]

AgentUpdate(ag, arm, reward, u) ==
    CASE ag.algorithm = "ucb" -> UCBUpdate(ag, arm, reward)
      [] ag.algorithm = "thompson_sampling" -> ThompsonUpdate(ag, arm, reward, u)
      [] OTHER -> BaseUpdate(ag, arm, reward)

-----------------------------------------------------------------------------
(* select_arm of the three agents *)

SetMin(S) ==
    CHOOSE x \in S : \A y \in S : x <= y

\* np.max(self.values)
MaxValue(ag) ==
    CHOOSE v \in {ag.values[i] : i \in Arms(ag)} :
        \A j \in Arms(ag) : ~RLess(v, ag.values[j])

\* np.where(self.values == max_value)[0]
BestArms(ag) ==
    {i \in Arms(ag) : ag.values[i] = MaxValue(ag)}

\* variant of Explore:  np.random.random() <= self.epsilon
ExploreLeq(ag, u) ==
    ~RLess(ag.epsilon, u)

\* if np.random.random() < self.epsilon
Explore(ag, u) ==
    RLess(u, ag.epsilon)

\* variant of RandInt with the upper end included, as random.randint has it
RandIntInclusive(low, high) ==
    low .. high

\* np.random.randint(0, self.n_arms): low inclusive, high exclusive
RandInt(low, high) ==
    low .. (high - 1)

\* the arms EpsilonGreedy.select_arm can return when the first draw is u
EpsilonGreedySelect(ag, u) ==
    IF Explore(ag, u) THEN RandInt(0, ag.n_arms) ELSE BestArms(ag)

\* np.argmax of Beta samples: the Beta law with positive parameters has full
\* support on (0,1), so every arm can hold the largest sample
ThompsonSelect(ag) ==
    Arms(ag)

\* variant of WarmupArms without the test  arm not in self._pending
WarmupArmsIgnorePending(ag) ==
    {a \in Arms(ag) : ag.counts[a] = 0}

\* variant of WarmupArms without the test  self.counts[arm] == 0
WarmupArmsIgnoreCounts(ag) ==
    {a \in Arms(ag) : a \notin ag.pending}

\* for arm in range(n_arms): if counts[arm] == 0 and arm not in _pending
WarmupArms(ag) ==
    {a \in Arms(ag) : ag.counts[a] = 0 /\ a \notin ag.pending}

\* 10^4 * ln(t), t = 1 .. 12
LnTable ==
    <<0, 6931, 10986, 13863, 16094, 17918, 19459, 20794, 21972, 23026, 23979, 24849>>

RECURSIVE ISqrt(_)
ISqrt(x) ==
    IF x < 2
    THEN x
    ELSE LET s == 2 * ISqrt(x \div 4)
         IN  IF (s + 1) * (s + 1) > x THEN s ELSE s + 1

Max2(a, b) ==
    IF a >= b THEN a ELSE b

\* 10^4 * sqrt(ln(max(total_pulls, 1)) / max(counts[i], 1e-5))
Bonus(ag, i) ==
    LET ln == LnTable[Max2(ag.total_pulls, 1)]
    IN  IF ag.counts[i] = 0
        THEN 1000 * ISqrt(ln * 1000)
        ELSE ISqrt((ln * 10000) \div ag.counts[i])

\* 10^4 * (values[i] + c * sqrt(...))
UCBValue(ag, i) ==
    (ag.values[i][1] * 10000) \div ag.values[i][2] + ag.c * Bonus(ag, i)

\* variant of ArgMax that returns the last index holding the maximum
ArgMaxLast(f, S) ==
    CHOOSE i \in S :
        /\ \A j \in S : f[i] >= f[j]
        /\ \A k \in S : (\A j \in S : f[k] >= f[j]) => k <= i

\* np.argmax: the first index holding the maximum
ArgMax(f, S) ==
    SetMin({i \in S : \A j \in S : f[i] >= f[j]})

UCBFormulaArm(ag) ==
    ArgMax([i \in Arms(ag) |-> UCBValue(ag, i)], Arms(ag))

\* variant of UCBSelect without  self._pending.add(arm)
UCBSelectNoAdd(ag) ==
    IF WarmupArms(ag) # {}
    THEN [ret |-> SetMin(WarmupArms(ag)), agent |-> ag]
    ELSE [ret |-> UCBFormulaArm(ag), agent |-> ag]

UCBSelect(ag) ==
    IF WarmupArms(ag) # {}
    THEN LET a == SetMin(WarmupArms(ag))
         IN  [ret |-> a, agent |-> [ag EXCEPT !.pending = @ \cup {a}]]
    ELSE [ret |-> UCBFormulaArm(ag), agent |-> ag]

\* variant of SelectOutcomes in which EpsilonGreedy and ThompsonSampling
\* count the arm they return as pulled
SelectOutcomesCounting(ag) ==
    CASE ag.algorithm = "ucb" -> {UCBSelect(ag)}
      [] ag.algorithm = "thompson_sampling" ->
            {[ret |-> r, agent |-> [ag EXCEPT !.counts[r] = @ + 1]] :
                r \in ThompsonSelect(ag)}
      [] OTHER ->
            {[ret |-> r, agent |-> [ag EXCEPT !.counts[r] = @ + 1]] :
                r \in UNION {EpsilonGreedySelect(ag, u) : u \in Draws}}

\* every (returned arm, agent afterwards) a select_arm call can produce
SelectOutcomes(ag) ==
    CASE ag.algorithm = "ucb" -> {UCBSelect(ag)}
      [] ag.algorithm = "thompson_sampling" ->
            {[ret |-> r, agent |-> ag] : r \in ThompsonSelect(ag)}
      [] OTHER ->
            {[ret |-> r, agent |-> ag] :
                r \in UNION {EpsilonGreedySelect(ag, u) : u \in Draws}}

-----------------------------------------------------------------------------
(* save_state and load_state.  A file holds the JSON object that was        *)
(* written, as a record; arrays are kept as the functions they hold.        *)

\* the keyword arguments each subclass passes to BaseAgent.save_state
SaveKeywords(ag) ==
    CASE ag.algorithm = "ucb" -> {"c"}
      [] ag.algorithm = "thompson_sampling" -> {"alpha", "beta"}
      [] OTHER -> {"epsilon"}

\* BaseAgent.save_state(self, filepath): it has no keyword parameter, so a
\* call that passes one raises TypeError before the file is opened
BaseSaveState(ag, keywords, now) ==
    IF keywords # {}
    THEN [err |-> "TypeError", written |-> FALSE, state |-> <<>>]
    ELSE [err |-> "none", written |-> TRUE,
          state |-> [n_arms |-> ag.n_arms, arm_names |-> ag.arm_names,
                     counts |-> ag.counts, values |-> ag.values,
                     total_reward |-> ag.total_reward,
                     total_pulls |-> ag.total_pulls, timestamp |-> now]]

\* EpsilonGreedy / UCB / ThompsonSampling.save_state
SaveState(ag, now) ==
    BaseSaveState(ag, SaveKeywords(ag), now)

\* BaseAgent.load_state: sets the four fields and returns nothing
BaseLoadState(ag, state) ==
    IF ~({"counts", "values", "total_reward", "total_pulls"} \subseteq DOMAIN state)
    THEN [agent |-> ag, err |-> "KeyError", ret |-> "None"]
    ELSE [agent |-> [ag EXCEPT !.counts = state.counts, !.values = state.values,
                               !.total_reward = state.total_reward,
                               !.total_pulls = state.total_pulls],
          err |-> "none", ret |-> "None"]

\* variant of LoadState in which the base method returns the state it read
LoadStateReturning(ag, state) ==
    LET b == BaseLoadState(ag, state)
    IN  [agent |-> b.agent, err |-> b.err]

\* EpsilonGreedy / UCB / ThompsonSampling.load_state:
\*   state = super().load_state(filepath); self.x = state.get("x", default)
\* the base method returned None, which has no attribute get
LoadState(ag, state) ==
    LET b == BaseLoadState(ag, state)
    IN  IF b.err # "none"
        THEN [agent |-> b.agent, err |-> b.err]
        ELSE [agent |-> b.agent, err |-> "AttributeError"]

-----------------------------------------------------------------------------
(* One caller at a time: any sequence of select_arm and update calls on a  *)
(* freshly constructed agent.                                              *)

NoCall ==
    [op |-> "none", arm |-> 0, reward |-> RZero, ret |-> 0, err |-> "none"]

\* no experiment manager takes part: the agent is driven directly
NoManager ==
    /\ experiments = <<>>
    /\ store = <<>>
    /\ resp = <<>>
    /\ clock = 0
    /\ deleted = {}

FreshAgents ==
    UNION {{EpsilonGreedy(n, e) : e \in Epsilons}
           \cup {UCB(n, DefaultC), ThompsonSampling(n)} : n \in 1 .. MaxArms}

\* the values of np.random.random() an update may consume: only
\* ThompsonSampling.update draws one
UpdateDraws(algorithm) ==
    IF algorithm = "thompson_sampling" THEN Draws ELSE {RZero}

\* arm indices a caller may pass: the valid ones, the last arm counted from
\* the end, and one index past each end of the range numpy accepts
ArmInputs(ag) ==
    Arms(ag) \cup {-1, ag.n_arms, -ag.n_arms - 1}

Init ==
    /\ agent \in FreshAgents
    /\ last = NoCall
    /\ selections = <<>>
    /\ nUpdates = 0
    /\ sums = [i \in Arms(agent) |-> RZero]
    /\ awaiting = {}
    /\ paired = TRUE
    /\ pc = <<>>
    /\ req = <<>>
    /\ done = <<>>
    /\ NoManager

\* agent.update(arm, reward); u is the draw of ThompsonSampling.update
Report(arm, reward, u) ==
    LET out == AgentUpdate(agent, arm, reward, u)
    IN  /\ agent.total_pulls < MaxPulls
        /\ agent' = out.agent
        /\ nUpdates' = IF out.err = "none" THEN nUpdates + 1 ELSE nUpdates
        /\ sums' = IF out.err = "none"
                   THEN [sums EXCEPT ![Resolve(agent.n_arms, arm)] = RAdd(@, reward)]
                   ELSE sums

SelectArm ==
    \E out \in SelectOutcomes(agent) :
        /\ agent' = out.agent
        /\ last' = [NoCall EXCEPT !.op = "select_arm", !.ret = out.ret]
        /\ UNCHANGED <<selections, nUpdates, sums, awaiting, paired, pc, req, done, Registry>>

Update ==
    \E arm \in ArmInputs(agent), reward \in Rewards,
       u \in UpdateDraws(agent.algorithm) :
        /\ Report(arm, reward, u)
        /\ last' = [NoCall EXCEPT
                       !.op = "update", !.arm = arm, !.reward = reward,
                       !.err = AgentUpdate(agent, arm, reward, u).err]
        /\ UNCHANGED <<selections, awaiting, paired, pc, req, done, Registry>>

Next ==
    \/ SelectArm
    \/ Update

Spec ==
    Init /\ [][Next]_vars

-----------------------------------------------------------------------------
(* A UCB agent with up to the three arms of the test suite, under any calls, *)
(* with both the last call and the pairing of the calls observed.            *)

\* the n_arms fixture of the tests
TestArms == 3

InitRounds ==
    /\ agent \in {UCB(n, DefaultC) : n \in 1 .. TestArms}
    /\ last = NoCall
    /\ selections = <<>>
    /\ nUpdates = 0
    /\ sums = [i \in Arms(agent) |-> RZero]
    /\ awaiting = {}
    /\ paired = TRUE
    /\ pc = <<>>
    /\ req = <<>>
    /\ done = <<>>
    /\ NoManager

RoundSelectArm ==
    \E out \in SelectOutcomes(agent) :
        /\ agent' = out.agent
        /\ last' = [NoCall EXCEPT !.op = "select_arm", !.ret = out.ret]
        /\ awaiting' = {out.ret}
        /\ paired' = (paired /\ awaiting = {})
        /\ UNCHANGED <<selections, nUpdates, sums, pc, req, done, Registry>>

RoundUpdate ==
    \E arm \in ArmInputs(agent), reward \in Rewards,
       u \in UpdateDraws(agent.algorithm) :
        /\ Report(arm, reward, u)
        /\ last' = [NoCall EXCEPT
                       !.op = "update", !.arm = arm, !.reward = reward,
                       !.err = AgentUpdate(agent, arm, reward, u).err]
        /\ awaiting' = IF nUpdates' > nUpdates THEN {} ELSE awaiting
        /\ paired' = IF nUpdates' > nUpdates
                     THEN paired /\ awaiting = {arm}
                     ELSE paired
        /\ UNCHANGED <<selections, pc, req, done, Registry>>

NextRounds ==
    \/ RoundSelectArm
    \/ RoundUpdate

SpecRounds ==
    InitRounds /\ [][NextRounds]_vars

-----------------------------------------------------------------------------
(* The same agent, also saved to and loaded from a file of an initially     *)
(* empty directory.                                                         *)

\* a directory after the file called name was written with content
Put(files, name, content) ==
    [n \in DOMAIN files \cup {name} |-> IF n = name THEN content ELSE files[n]]

\* variant of Drop that empties the dictionary
DropAll(files, name) ==
    <<>>

\* a dictionary after  del d[name]
Drop(files, name) ==
    [n \in DOMAIN files \ {name} |-> files[n]]

AgentFile ==
    "agent"

\* agent.save_state(filepath)
SaveAgent ==
    LET out == SaveState(agent, clock)
    IN  /\ store' = IF out.written THEN Put(store, AgentFile, out.state) ELSE store
        /\ last' = [NoCall EXCEPT !.op = "save_state", !.err = out.err]
        /\ UNCHANGED <<agent, selections, nUpdates, sums, awaiting, paired, pc, req,
                       done, experiments, resp, clock, deleted>>

\* agent.load_state(filepath); open() raises when the file does not exist
LoadAgent ==
    LET out == IF AgentFile \in DOMAIN store
               THEN LoadState(agent, store[AgentFile])
               ELSE [agent |-> agent, err |-> "FileNotFoundError"]
    IN  /\ agent' = out.agent
        /\ last' = [NoCall EXCEPT !.op = "load_state", !.err = out.err]
        /\ UNCHANGED <<selections, nUpdates, sums, awaiting, paired, pc, req, done,
                       Registry>>

NextPersist ==
    \/ SelectArm
    \/ Update
    \/ SaveAgent
    \/ LoadAgent

SpecPersist ==
    Init /\ [][NextPersist]_vars

-----------------------------------------------------------------------------
(* The same calls on a fresh UCB agent, with the order of the calls         *)
(* observed: which arms the first n_arms select_arm calls returned, and     *)
(* whether each select_arm was followed by update(returned arm, r).         *)

InitUCB ==
    /\ agent \in {UCB(n, DefaultC) : n \in 1 .. MaxArms}
    /\ last = NoCall
    /\ selections = <<>>
    /\ nUpdates = 0
    /\ sums = [i \in Arms(agent) |-> RZero]
    /\ awaiting = {}
    /\ paired = TRUE
    /\ pc = <<>>
    /\ req = <<>>
    /\ done = <<>>
    /\ NoManager

UCBSelectArm ==
    \E out \in SelectOutcomes(agent) :
        /\ agent' = out.agent
        /\ selections' = IF Len(selections) < agent.n_arms
                         THEN Append(selections, out.ret)
                         ELSE selections
        /\ awaiting' = {out.ret}
        /\ paired' = (paired /\ awaiting = {})
        /\ UNCHANGED <<last, nUpdates, sums, pc, req, done, Registry>>

UCBReport ==
    \E arm \in ArmInputs(agent), reward \in Rewards,
       u \in UpdateDraws(agent.algorithm) :
        /\ Report(arm, reward, u)
        /\ awaiting' = IF nUpdates' > nUpdates THEN {} ELSE awaiting
        /\ paired' = IF nUpdates' > nUpdates
                     THEN paired /\ awaiting = {arm}
                     ELSE paired
        /\ UNCHANGED <<last, selections, pc, req, done, Registry>>

NextUCB ==
    \/ UCBSelectArm
    \/ UCBReport

SpecUCB ==
    InitUCB /\ [][NextUCB]_vars

-----------------------------------------------------------------------------
(* A UCB agent driven by the protocol of the API: select_arm is called       *)
(* again and again, and every arm it returns is reported later with          *)
(* update(arm, reward), in any order and with any delay.                     *)

\* arms that were never pulled
UnpulledArms(ag) ==
    {a \in Arms(ag) : ag.counts[a] = 0}

WarmupSelect ==
    \E out \in SelectOutcomes(agent) :
        /\ agent' = out.agent
        /\ last' = [NoCall EXCEPT !.op = "select_arm", !.ret = out.ret]
        /\ awaiting' = awaiting \cup {out.ret}
        /\ UNCHANGED <<selections, nUpdates, sums, paired, pc, req, done, Registry>>

\* a select_arm call of the warm-up phase: it hands out an arm never handed
\* out before
WarmupDispatch ==
    /\ WarmupArms(agent) # {}
    /\ WarmupSelect

\* update(arm, reward) can be called for the arm: a select_arm has returned
\* it; the pulls the model allows are kept for the arms that have none yet
CanReport(arm) ==
    /\ arm \in awaiting
    /\ agent.total_pulls < MaxPulls
    /\ agent.counts[arm] > 0
          => agent.total_pulls + Cardinality(UnpulledArms(agent)) < MaxPulls

\* update(arm, reward) for an arm a select_arm has returned
ReportAwaited(arm) ==
    \E reward \in Rewards :
        /\ CanReport(arm)
        /\ Report(arm, reward, RZero)
        /\ last' = [NoCall EXCEPT !.op = "update", !.arm = arm, !.reward = reward]
        /\ awaiting' = awaiting \ {arm}
        /\ UNCHANGED <<selections, paired, pc, req, done, Registry>>

\* what a ReportAwaited(arm) step does to awaiting, and no other step does
Reported(arm) ==
    /\ CanReport(arm)
    /\ awaiting' = awaiting \ {arm}

NextWarmup ==
    \/ WarmupSelect
    \/ \E arm \in 0 .. (MaxArms - 1) : ReportAwaited(arm)

\* the caller keeps selecting while arms are to be handed out, and reports
\* every arm it was given
SpecWarmup ==
    /\ InitUCB
    /\ [][NextWarmup]_vars
    /\ WF_vars(WarmupDispatch)
    /\ \A arm \in 0 .. (MaxArms - 1) : WF_awaiting(Reported(arm))

-----------------------------------------------------------------------------
(* The experiment manager of src/src/api/experiment_manager.py with the     *)
(* endpoints of src/src/api/app.py, one request at a time.  The storage     *)
(* directory may hold files when the manager is constructed.                *)

MaxClock == 3

Names ==
    {"a", "b"}

\* request.arms: List[str], of any length, names not necessarily distinct
ArmLists ==
    {<<>>, <<"A">>, <<"A", "A">>, <<"A", "B">>}

\* the members of AlgorithmType and a value that is none of them
AlgorithmInputs ==
    Algorithms \cup {"other"}

\* the agent variables, which the manager does not use
Direct ==
    <<agent, last, selections, nUpdates, sums, awaiting, paired, pc, req, done>>

NoStats ==
    [total_pulls |-> 0, total_reward |-> RZero, average_reward |-> RZero,
     arm_counts |-> <<>>, arm_values |-> <<>>, arm_names |-> <<>>,
     algorithm |-> "", experiment_name |-> ""]

NoResp ==
    [op |-> "none", name |-> "", err |-> "none", msg |-> "", arm_index |-> 0,
     arm_name |-> "", count |-> 0, stats |-> NoStats, entries |-> {}]

\* a file holding every key load_all_experiments and load_state read
FileOf(ag, now) ==
    [algorithm |-> ag.algorithm, n_arms |-> ag.n_arms, arm_names |-> ag.arm_names,
     counts |-> ag.counts, values |-> ag.values, total_reward |-> ag.total_reward,
     total_pulls |-> ag.total_pulls, timestamp |-> now, c |-> ag.c]

\* the agent whose state the files of the directory hold
StoredAgent ==
    BaseUpdate(WithArmNames(UCB(2, DefaultC), <<"A", "B">>), 0, ROne).agent

\* files load_all_experiments does not accept: one as BaseAgent.save_state
\* lays it out (no "algorithm" key), and one naming an unknown algorithm
InvalidFiles ==
    {BaseSaveState(StoredAgent, {}, 0).state,
     [FileOf(StoredAgent, 0) EXCEPT !.algorithm = "softmax"]}

\* the directory at process start: empty, or a complete file next to one
\* that load_all_experiments does not accept
InitialStores ==
    {<<>>} \cup {[n \in Names |-> IF n = "a" THEN FileOf(StoredAgent, 0) ELSE f] :
                    f \in InvalidFiles}

InitReg ==
    /\ agent = <<>>
    /\ last = NoCall
    /\ selections = <<>>
    /\ nUpdates = 0
    /\ sums = <<>>
    /\ awaiting = {}
    /\ paired = TRUE
    /\ pc = <<>>
    /\ req = <<>>
    /\ done = <<>>
    /\ experiments = <<>>
    /\ store \in InitialStores
    /\ resp = NoResp
    /\ clock = 0
    /\ deleted = {}

\* epsilon: Optional[float] = Field(0.1)
DefaultEpsilon ==
    Rat(1, 10)

\* a call on the manager: time passes
Tick ==
    /\ clock < MaxClock
    /\ clock' = clock + 1

\* the constructor create_experiment calls for the algorithm
NewAgent(algorithm, arms, eps) ==
    CASE algorithm = "epsilon_greedy" -> WithArmNames(EpsilonGreedy(Len(arms), eps), arms)
      [] algorithm = "thompson_sampling" -> WithArmNames(ThompsonSampling(Len(arms)), arms)
      [] algorithm = "ucb" -> WithArmNames(UCB(Len(arms), DefaultC), arms)

\* _save_experiment(name): agent.save_state(<storage_dir>/<name>.json)
SaveExperimentFile(reg, files, name, now) ==
    LET out == SaveState(reg[name].agent, now)
    IN  [err |-> out.err,
         store |-> IF out.written THEN Put(files, name, out.state) ELSE files]

\* variant of Registered that finds no name
RegisteredNever(reg, name) ==
    FALSE

\* name in self.experiments
Registered(reg, name) ==
    name \in DOMAIN reg

\* ExperimentManager.create_experiment(name, arms, algorithm, epsilon)
Create(name, arms, algorithm, eps) ==
    /\ Tick
    /\ IF Registered(experiments, name)
       THEN /\ resp' = [NoResp EXCEPT !.op = "create", !.name = name,
                            !.err = "ValueError", !.msg = "already exists"]
            /\ UNCHANGED <<experiments, store>>
       ELSE IF algorithm \notin Algorithms
       THEN /\ resp' = [NoResp EXCEPT !.op = "create", !.name = name,
                            !.err = "ValueError", !.msg = "Unknown algorithm"]
            /\ UNCHANGED <<experiments, store>>
       ELSE LET entry == [agent |-> NewAgent(algorithm, arms, eps),
                          created_at |-> clock, algorithm |-> algorithm]
                reg == Put(experiments, name, entry)
                saved == SaveExperimentFile(reg, store, name, clock)
            IN  /\ experiments' = reg
                /\ store' = saved.store
                /\ resp' = [NoResp EXCEPT
                                !.op = "create", !.name = name, !.err = saved.err,
                                !.msg = IF saved.err = "none"
                                        THEN "created successfully" ELSE ""]
    /\ deleted' = deleted \ DOMAIN experiments'
    /\ UNCHANGED Direct

\* POST /experiments
CreateExperiment ==
    \E name \in Names, arms \in ArmLists, algorithm \in AlgorithmInputs :
        Create(name, arms, algorithm, DefaultEpsilon)

\* get_experiment(name) raises ValueError when the name is not registered
NotFound(op, name) ==
    [NoResp EXCEPT !.op = op, !.name = name, !.err = "ValueError", !.msg = "not found"]

\* numpy raises ValueError on the empty arrays of an agent without arms:
\* np.max, np.argmax and np.random.randint(0, 0)
SelectRaises(ag) ==
    ag.n_arms = 0

\* POST /select: ExperimentManager.select_arm
ManagerSelectArm ==
    \E name \in Names :
        /\ Tick
        /\ IF ~Registered(experiments, name)
           THEN /\ resp' = NotFound("select_arm", name)
                /\ UNCHANGED experiments
           ELSE IF SelectRaises(experiments[name].agent)
           THEN /\ resp' = [NoResp EXCEPT !.op = "select_arm", !.name = name,
                                !.err = "ValueError", !.msg = "empty"]
                /\ UNCHANGED experiments
           ELSE \E out \in SelectOutcomes(experiments[name].agent) :
                    /\ experiments' = [experiments EXCEPT ![name].agent = out.agent]
                    /\ resp' = [NoResp EXCEPT
                                    !.op = "select_arm", !.name = name,
                                    !.arm_index = out.ret,
                                    !.arm_name = out.agent.arm_names[out.ret + 1]]
        /\ UNCHANGED <<store, deleted, Direct>>

\* ExperimentManager.update_reward(name, arm, reward); u is the draw of
\* ThompsonSampling.update
UpdateReward(name, arm, reward, u) ==
    /\ Tick
    /\ IF ~Registered(experiments, name)
       THEN /\ resp' = NotFound("update_reward", name)
            /\ UNCHANGED <<experiments, store>>
       ELSE LET out == AgentUpdate(experiments[name].agent, arm, reward, u)
                reg == [experiments EXCEPT ![name].agent = out.agent]
                saved == SaveExperimentFile(reg, store, name, clock)
            IN  /\ experiments' = reg
                /\ store' = IF out.err = "none" THEN saved.store ELSE store
                /\ resp' = [NoResp EXCEPT
                                !.op = "update_reward", !.name = name,
                                !.arm_index = arm,
                                !.err = IF out.err = "none"
                                        THEN saved.err ELSE out.err]
    /\ UNCHANGED <<deleted, Direct>>

\* the arm indices a request may carry for the experiment: those of its arms
\* and the first one past them
RequestArms(reg, name) ==
    IF name \in DOMAIN reg
    THEN Arms(reg[name].agent) \cup {reg[name].agent.n_arms}
    ELSE {0}

\* POST /update
ManagerUpdateReward ==
    \E name \in Names, reward \in {RZero, ROne} :
        \E arm \in RequestArms(experiments, name),
           u \in UpdateDraws(IF Registered(experiments, name)
                             THEN experiments[name].agent.algorithm ELSE "") :
            UpdateReward(name, arm, reward, u)

\* BaseAgent.get_stats and its overrides, with the name the manager adds
AgentStats(ag, name) ==
    [total_pulls |-> ag.total_pulls,
     total_reward |-> ag.total_reward,
     average_reward |-> RMul(ag.total_reward, Rat(1, Max2(ag.total_pulls, 1))),
     arm_counts |-> ag.counts,
     arm_values |-> ag.values,
     arm_names |-> ag.arm_names,
     algorithm |-> ag.algorithm,
     experiment_name |-> name]

\* variant of GetStats that empties the pending set of the agent it reads
GetStatsClearsPending(ag, name) ==
    [stats |-> AgentStats(ag, name), agent |-> [ag EXCEPT !.pending = {}]]

\* agent.get_stats(): the dictionary it returns and the agent it leaves; the
\* arrays are copied with tolist() and no field of the agent is assigned
GetStats(ag, name) ==
    [stats |-> AgentStats(ag, name), agent |-> ag]

\* GET /experiments/{name}/stats: ExperimentManager.get_stats
ManagerGetStats ==
    \E name \in Names :
        /\ Tick
        /\ IF ~Registered(experiments, name)
           THEN /\ resp' = NotFound("get_stats", name)
                /\ UNCHANGED experiments
           ELSE LET out == GetStats(experiments[name].agent, name)
                IN  /\ resp' = [NoResp EXCEPT !.op = "get_stats", !.name = name,
                                    !.stats = out.stats]
                    /\ experiments' = [experiments EXCEPT ![name].agent = out.agent]
        /\ UNCHANGED <<store, deleted, Direct>>

\* variant of ListExperiments that leaves every agent as it was constructed
ListExperimentsResetting(reg) ==
    [entries |-> {[name |-> n, algorithm |-> reg[n].algorithm,
                   created_at |-> reg[n].created_at,
                   total_pulls |-> reg[n].agent.total_pulls] : n \in DOMAIN reg},
     reg |-> [n \in DOMAIN reg |->
                 [reg[n] EXCEPT !.agent.counts =
                                    [i \in DOMAIN reg[n].agent.counts |-> 0]]]]

\* ExperimentManager.list_experiments: one entry per registered experiment,
\* read from the registry, which it leaves as it is
ListExperiments(reg) ==
    [entries |-> {[name |-> n, algorithm |-> reg[n].algorithm,
                   created_at |-> reg[n].created_at,
                   total_pulls |-> reg[n].agent.total_pulls] : n \in DOMAIN reg},
     reg |-> reg]

\* GET /experiments
ManagerListExperiments ==
    LET out == ListExperiments(experiments)
    IN  /\ Tick
        /\ resp' = [NoResp EXCEPT !.op = "list", !.entries = out.entries,
                        !.count = Cardinality(out.entries)]
        /\ experiments' = out.reg
        /\ UNCHANGED <<store, deleted, Direct>>

\* DELETE /experiments/{name}: only the entry of the manager is removed
DeleteExperiment ==
    \E name \in Names :
        /\ Tick
        /\ IF Registered(experiments, name)
           THEN /\ experiments' = Drop(experiments, name)
                /\ resp' = [NoResp EXCEPT !.op = "delete", !.name = name,
                                !.msg = "deleted"]
                /\ deleted' = deleted \cup {name}
           ELSE /\ resp' = NotFound("delete", name)
                /\ UNCHANGED <<experiments, deleted>>
        /\ UNCHANGED <<store, Direct>>

\* the constructor load_all_experiments calls for a file
LoadedAgent(state) ==
    LET names == IF "arm_names" \in DOMAIN state THEN state.arm_names ELSE <<>>
    IN  CASE state.algorithm = "epsilon_greedy" ->
                WithArmNames(EpsilonGreedy(state.n_arms,
                    IF "epsilon" \in DOMAIN state THEN state.epsilon ELSE DefaultEpsilon),
                    names)
          [] state.algorithm = "thompson_sampling" ->
                WithArmNames(ThompsonSampling(state.n_arms), names)
          [] state.algorithm = "ucb" ->
                WithArmNames(UCB(state.n_arms,
                    IF "c" \in DOMAIN state THEN state.c ELSE DefaultC), names)

\* the body of the loop of load_all_experiments for one file: whether the
\* experiment is registered, and the entry it gets
LoadOne(state, now) ==
    IF \/ "algorithm" \notin DOMAIN state
       \/ "n_arms" \notin DOMAIN state
       \/ state.algorithm = ""
       \/ state.n_arms = 0
    THEN [registered |-> FALSE, why |-> "skipped"]
    ELSE IF state.algorithm \notin Algorithms
    THEN [registered |-> FALSE, why |-> "no agent"]
    ELSE LET loaded == LoadState(LoadedAgent(state), state)
         IN  IF loaded.err # "none"
             THEN [registered |-> FALSE, why |-> loaded.err]
             ELSE [registered |-> TRUE, why |-> "",
                   entry |-> [agent |-> loaded.agent,
                              created_at |-> IF "timestamp" \in DOMAIN state
                                             THEN state.timestamp ELSE now,
                              algorithm |-> state.algorithm]]

\* the names load_all_experiments registers from the files of the directory
LoadedNames(files, now) ==
    {n \in DOMAIN files : LoadOne(files[n], now).registered}

\* process start: manager = ExperimentManager(), then load_all_experiments()
Restart ==
    /\ Tick
    /\ experiments' = [n \in LoadedNames(store, clock) |->
                           LoadOne(store[n], clock).entry]
    /\ resp' = [NoResp EXCEPT !.op = "load_all",
                    !.count = Cardinality(LoadedNames(store, clock))]
    /\ UNCHANGED <<store, deleted, Direct>>

NextReg ==
    \/ CreateExperiment
    \/ ManagerSelectArm
    \/ ManagerUpdateReward
    \/ ManagerGetStats
    \/ ManagerListExperiments
    \/ DeleteExperiment
    \/ Restart

SpecReg ==
    InitReg /\ [][NextReg]_vars

-----------------------------------------------------------------------------
(* Concurrent callers.  The endpoints of src/src/api/app.py are plain def   *)
(* functions, which the server runs on worker threads; the handlers and the *)
(* agent methods take no lock, so two calls interleave between any two      *)
(* accesses to the shared agent.  Each action below is one such access.     *)

Threads ==
    {"t1", "t2"}

NoLocals ==
    [op |-> "none", arm |-> 0, reward |-> RZero, u |-> RZero,
     tmp |-> 0, rtmp |-> RZero, snap |-> <<>>]

NoOutcome ==
    [n |-> 0, op |-> "none", arm |-> 0, reward |-> RZero, ret |-> 0, err |-> "none"]

InitConc ==
    /\ agent \in FreshAgents
    /\ last = NoCall
    /\ selections = <<>>
    /\ nUpdates = 0
    /\ sums = [i \in Arms(agent) |-> RZero]
    /\ awaiting = {}
    /\ paired = TRUE
    /\ pc = [t \in Threads |-> "idle"]
    /\ req = [t \in Threads |-> NoLocals]
    /\ done = [t \in Threads |-> NoOutcome]
    /\ NoManager

Observers ==
    <<last, selections, nUpdates, sums, awaiting, paired, Registry>>

\* the call of thread t and its answer: it returns ret, or raises err
Outcome(t, ret, err) ==
    [n |-> done[t].n + 1, op |-> req[t].op,
     arm |-> IF req[t].op = "update" THEN req[t].arm ELSE 0,
     reward |-> req[t].reward, ret |-> ret, err |-> err]

Complete(t, ret, err) ==
    /\ pc' = [pc EXCEPT ![t] = "idle"]
    /\ done' = [done EXCEPT ![t] = Outcome(t, ret, err)]
    /\ req' = [req EXCEPT ![t] = NoLocals]

Goto(t, label) ==
    /\ pc' = [pc EXCEPT ![t] = label]
    /\ UNCHANGED done

\* POST /select: manager.select_arm -> agent.select_arm()
StartSelect(t) ==
    /\ pc[t] = "idle"
    /\ done[t].n = 0
    /\ req' = [req EXCEPT ![t] = [NoLocals EXCEPT !.op = "select_arm"]]
    /\ Goto(t, CASE agent.algorithm = "ucb" -> "scan"
                 [] agent.algorithm = "thompson_sampling" -> "sample"
                 [] OTHER -> "draw")
    /\ UNCHANGED <<agent, Observers>>

\* POST /update: manager.update_reward -> agent.update(arm, reward)
StartUpdate(t) ==
    \E arm \in ArmInputs(agent), reward \in Rewards :
        /\ pc[t] = "idle"
        /\ done[t].n = 0
        /\ req' = [req EXCEPT ![t] = [NoLocals EXCEPT !.op = "update", !.arm = arm,
                                         !.reward = reward]]
        /\ Goto(t, IF agent.algorithm = "ucb" THEN "discard" ELSE "counts_read")
        /\ UNCHANGED <<agent, Observers>>

\* the for loop of UCB.select_arm moves to the next arm, or ends
NextArm(t) ==
    IF req[t].arm + 1 < agent.n_arms
    THEN /\ req' = [req EXCEPT ![t].arm = @ + 1]
         /\ Goto(t, "scan")
    ELSE /\ req' = req
         /\ Goto(t, "safe_counts")

\* self.counts[arm] == 0
ScanCounts(t) ==
    /\ pc[t] = "scan"
    /\ IF agent.counts[req[t].arm] = 0
       THEN req' = req /\ Goto(t, "scan_pending")
       ELSE NextArm(t)
    /\ UNCHANGED <<agent, Observers>>

\* arm not in self._pending
ScanPending(t) ==
    /\ pc[t] = "scan_pending"
    /\ IF req[t].arm \notin agent.pending
       THEN req' = req /\ Goto(t, "add")
       ELSE NextArm(t)
    /\ UNCHANGED <<agent, Observers>>

\* self._pending.add(arm); return arm
AddPending(t) ==
    /\ pc[t] = "add"
    /\ agent' = [agent EXCEPT !.pending = @ \cup {req[t].arm}]
    /\ Complete(t, req[t].arm, "none")
    /\ UNCHANGED Observers

\* safe_counts = np.maximum(self.counts, 1e-5)
SafeCounts(t) ==
    /\ pc[t] = "safe_counts"
    /\ req' = [req EXCEPT ![t].snap = agent.counts]
    /\ Goto(t, "log_pulls")
    /\ UNCHANGED <<agent, Observers>>

\* np.log(max(self.total_pulls, 1))
LogPulls(t) ==
    /\ pc[t] = "log_pulls"
    /\ req' = [req EXCEPT ![t].tmp = agent.total_pulls]
    /\ Goto(t, "argmax")
    /\ UNCHANGED <<agent, Observers>>

\* ucb_values = self.values + ...; return int(np.argmax(ucb_values))
FormulaArgMax(t) ==
    /\ pc[t] = "argmax"
    /\ Complete(t, UCBFormulaArm([agent EXCEPT !.counts = req[t].snap,
                                               !.total_pulls = req[t].tmp]),
                "none")
    /\ UNCHANGED <<agent, Observers>>

\* EpsilonGreedy.select_arm: the draw, then randint or max_value = np.max(values)
GreedyDraw(t) ==
    /\ pc[t] = "draw"
    /\ \E u \in Draws :
          IF Explore(agent, u)
          THEN \E r \in RandInt(0, agent.n_arms) : Complete(t, r, "none")
          ELSE /\ req' = [req EXCEPT ![t].rtmp = MaxValue(agent)]
               /\ Goto(t, "where")
    /\ UNCHANGED <<agent, Observers>>

\* best_arms = np.where(self.values == max_value)[0]; np.random.choice(best_arms)
\* (choice raises ValueError on an empty array)
GreedyChoice(t) ==
    /\ pc[t] = "where"
    /\ LET best == {i \in Arms(agent) : agent.values[i] = req[t].rtmp}
       IN  IF best = {}
           THEN Complete(t, 0, "ValueError")
           ELSE \E r \in best : Complete(t, r, "none")
    /\ UNCHANGED <<agent, Observers>>

\* ThompsonSampling.select_arm
ThompsonSample(t) ==
    /\ pc[t] = "sample"
    /\ \E r \in ThompsonSelect(agent) : Complete(t, r, "none")
    /\ UNCHANGED <<agent, Observers>>

\* UCB.update: self._pending.discard(arm)
DiscardPending(t) ==
    /\ pc[t] = "discard"
    /\ agent' = [agent EXCEPT !.pending = @ \ {req[t].arm}]
    /\ req' = req
    /\ Goto(t, "counts_read")
    /\ UNCHANGED Observers

Idx(t) ==
    Resolve(agent.n_arms, req[t].arm)

\* self.counts[arm] += 1: the read (IndexError when arm is out of range)
CountsRead(t) ==
    /\ pc[t] = "counts_read"
    /\ IF InRange(agent.n_arms, req[t].arm)
       THEN /\ req' = [req EXCEPT ![t].tmp = agent.counts[Idx(t)]]
            /\ Goto(t, "counts_write")
       ELSE Complete(t, 0, "IndexError")
    /\ UNCHANGED <<agent, Observers>>

\* self.counts[arm] += 1: the write
CountsWrite(t) ==
    /\ pc[t] = "counts_write"
    /\ agent' = [agent EXCEPT !.counts[Idx(t)] = req[t].tmp + 1]
    /\ req' = req
    /\ Goto(t, "pulls_read")
    /\ UNCHANGED Observers

\* self.total_pulls += 1: the read
PullsRead(t) ==
    /\ pc[t] = "pulls_read"
    /\ req' = [req EXCEPT ![t].tmp = agent.total_pulls]
    /\ Goto(t, "pulls_write")
    /\ UNCHANGED <<agent, Observers>>

\* self.total_pulls += 1: the write
PullsWrite(t) ==
    /\ pc[t] = "pulls_write"
    /\ agent' = [agent EXCEPT !.total_pulls = req[t].tmp + 1]
    /\ req' = req
    /\ Goto(t, "reward_read")
    /\ UNCHANGED Observers

\* self.total_reward += reward: the read
RewardRead(t) ==
    /\ pc[t] = "reward_read"
    /\ req' = [req EXCEPT ![t].rtmp = agent.total_reward]
    /\ Goto(t, "reward_write")
    /\ UNCHANGED <<agent, Observers>>

\* self.total_reward += reward: the write
RewardWrite(t) ==
    /\ pc[t] = "reward_write"
    /\ agent' = [agent EXCEPT !.total_reward = RAdd(req[t].rtmp, req[t].reward)]
    /\ req' = req
    /\ Goto(t, "n_read")
    /\ UNCHANGED Observers

\* n = self.counts[arm]
NRead(t) ==
    /\ pc[t] = "n_read"
    /\ req' = [req EXCEPT ![t].tmp = agent.counts[Idx(t)]]
    /\ Goto(t, "value_read")
    /\ UNCHANGED <<agent, Observers>>

\* value = self.values[arm]
ValueRead(t) ==
    /\ pc[t] = "value_read"
    /\ req' = [req EXCEPT ![t].rtmp = agent.values[Idx(t)]]
    /\ Goto(t, "value_write")
    /\ UNCHANGED <<agent, Observers>>

\* self.values[arm] = ((n - 1) / n) * value + (1 / n) * reward
ValueWrite(t) ==
    /\ pc[t] = "value_write"
    /\ agent' = [agent EXCEPT !.values[Idx(t)] =
                    IncrementalMean(req[t].tmp, req[t].rtmp, req[t].reward)]
    /\ req' = req
    /\ Goto(t, IF agent.algorithm = "thompson_sampling"
               THEN "posterior_read" ELSE "save")
    /\ UNCHANGED Observers

\* ThompsonSampling.update: the draw, then alpha[arm] += 1 or beta[arm] += 1,
\* the read
PosteriorRead(t) ==
    /\ pc[t] = "posterior_read"
    /\ \E u \in Draws :
          req' = [req EXCEPT ![t].u = u,
                             ![t].tmp = IF BernoulliSuccess(req[t].reward, u)
                                        THEN agent.alpha[Idx(t)]
                                        ELSE agent.beta[Idx(t)]]
    /\ Goto(t, "posterior_write")
    /\ UNCHANGED <<agent, Observers>>

\* ThompsonSampling.update: alpha[arm] += 1 or beta[arm] += 1, the write
PosteriorWrite(t) ==
    /\ pc[t] = "posterior_write"
    /\ agent' = IF BernoulliSuccess(req[t].reward, req[t].u)
                THEN [agent EXCEPT !.alpha[Idx(t)] = req[t].tmp + 1]
                ELSE [agent EXCEPT !.beta[Idx(t)] = req[t].tmp + 1]
    /\ req' = req
    /\ Goto(t, "save")
    /\ UNCHANGED Observers

\* self._save_experiment(name): every subclass calls
\* super().save_state(filepath, <keyword>=...), which BaseAgent.save_state(self,
\* filepath) does not accept: TypeError, raised before the file is opened
SaveExperiment(t) ==
    /\ pc[t] = "save"
    /\ Complete(t, 0, "TypeError")
    /\ UNCHANGED <<agent, Observers>>

NextConc ==
    \E t \in Threads :
        \/ StartSelect(t)
        \/ StartUpdate(t)
        \/ ScanCounts(t)
        \/ ScanPending(t)
        \/ AddPending(t)
        \/ SafeCounts(t)
        \/ LogPulls(t)
        \/ FormulaArgMax(t)
        \/ GreedyDraw(t)
        \/ GreedyChoice(t)
        \/ ThompsonSample(t)
        \/ DiscardPending(t)
        \/ CountsRead(t)
        \/ CountsWrite(t)
        \/ PullsRead(t)
        \/ PullsWrite(t)
        \/ RewardRead(t)
        \/ RewardWrite(t)
        \/ NRead(t)
        \/ ValueRead(t)
        \/ ValueWrite(t)
        \/ PosteriorRead(t)
        \/ PosteriorWrite(t)
        \/ SaveExperiment(t)

SpecConc ==
    InitConc /\ [][NextConc]_vars

-----------------------------------------------------------------------------
(* POST /experiments served by two threads: create_experiment step by step.
   The endpoints are plain def functions, which the server runs in a thread
   pool, and ExperimentManager holds no lock. *)

\* the locals of one create_experiment call
NoCreate ==
    [op |-> "none", name |-> "", arms |-> <<>>, algorithm |-> "", made |-> <<>>]

\* what a create_experiment call was given and how it ended
NoCreated ==
    [n |-> 0, name |-> "", arms |-> <<>>, algorithm |-> "", err |-> "none",
     msg |-> ""]

\* the variables create_experiment does not use
CreateIdle ==
    <<agent, last, selections, nUpdates, sums, awaiting, paired, resp>>

InitCreate ==
    /\ agent = <<>>
    /\ last = NoCall
    /\ selections = <<>>
    /\ nUpdates = 0
    /\ sums = <<>>
    /\ awaiting = {}
    /\ paired = TRUE
    /\ pc = [t \in Threads |-> "idle"]
    /\ req = [t \in Threads |-> NoCreate]
    /\ done = [t \in Threads |-> NoCreated]
    /\ experiments = <<>>
    /\ store = <<>>
    /\ resp = NoResp
    /\ clock = 0
    /\ deleted = {}

\* create_experiment returns, or raises err
Returned(t, err, msg) ==
    /\ pc' = [pc EXCEPT ![t] = "idle"]
    /\ done' = [done EXCEPT ![t] =
                   [n |-> done[t].n + 1, name |-> req[t].name, arms |-> req[t].arms,
                    algorithm |-> req[t].algorithm, err |-> err, msg |-> msg]]
    /\ req' = [req EXCEPT ![t] = NoCreate]

\* POST /experiments: manager.create_experiment(name, arms, algorithm, epsilon)
CallCreate(t) ==
    \E name \in Names, arms \in ArmLists, algorithm \in AlgorithmInputs :
        /\ pc[t] = "idle"
        /\ done[t].n = 0
        /\ req' = [req EXCEPT ![t] = [NoCreate EXCEPT !.op = "create", !.name = name,
                                         !.arms = arms, !.algorithm = algorithm]]
        /\ pc' = [pc EXCEPT ![t] = "check_name"]
        /\ UNCHANGED <<done, Registry, CreateIdle>>

\* if name in self.experiments: raise ValueError
CheckName(t) ==
    /\ pc[t] = "check_name"
    /\ IF Registered(experiments, req[t].name)
       THEN Returned(t, "ValueError", "already exists")
       ELSE /\ pc' = [pc EXCEPT ![t] = "construct"]
            /\ UNCHANGED <<req, done>>
    /\ UNCHANGED <<Registry, CreateIdle>>

\* the if/elif chain over algorithm: the agent, or ValueError
ConstructAgent(t) ==
    /\ pc[t] = "construct"
    /\ IF req[t].algorithm \notin Algorithms
       THEN Returned(t, "ValueError", "Unknown algorithm")
       ELSE /\ req' = [req EXCEPT ![t].made =
                          NewAgent(req[t].algorithm, req[t].arms, DefaultEpsilon)]
            /\ pc' = [pc EXCEPT ![t] = "register"]
            /\ UNCHANGED done
    /\ UNCHANGED <<Registry, CreateIdle>>

\* self.experiments[name] = {"agent": agent, "created_at": now, "algorithm": ...}
RegisterAgent(t) ==
    /\ pc[t] = "register"
    /\ Tick
    /\ experiments' = Put(experiments, req[t].name,
                          [agent |-> req[t].made, created_at |-> clock,
                           algorithm |-> req[t].algorithm])
    /\ pc' = [pc EXCEPT ![t] = "save_initial"]
    /\ UNCHANGED <<req, done, store, resp, deleted, CreateIdle>>

\* self._save_experiment(name), then the return of the message
SaveInitialState(t) ==
    /\ pc[t] = "save_initial"
    /\ LET saved == SaveExperimentFile(experiments, store, req[t].name, clock)
       IN  /\ store' = saved.store
           /\ Returned(t, saved.err,
                       IF saved.err = "none" THEN "created successfully" ELSE "")
    /\ UNCHANGED <<experiments, clock, resp, deleted, CreateIdle>>

NextCreate ==
    \E t \in Threads :
        \/ CallCreate(t)
        \/ CheckName(t)
        \/ ConstructAgent(t)
        \/ RegisterAgent(t)
        \/ SaveInitialState(t)

SpecCreate ==
    InitCreate /\ [][NextCreate]_vars

-----------------------------------------------------------------------------
(* Properties of the agents under sequential calls *)

RECURSIVE SumOver(_, _)
SumOver(f, S) ==
    IF S = {}
    THEN 0
    ELSE LET x == CHOOSE y \in S : TRUE
         IN  f[x] + SumOver(f, S \ {x})

\* C1: for every agent variant and in every state reached by select_arm and
\* update calls, the index returned by select_arm lies in [0, n_arms).
SelectReturnsValidIndex ==
    last.op = "select_arm" => (0 <= last.ret /\ last.ret < agent.n_arms)

\* C1 witness: a UCB select_arm answered by the formula path after updates
SelectReturnsValidIndexWitness ==
    /\ last.op = "select_arm"
    /\ agent.algorithm = "ucb"
    /\ agent.n_arms >= 2
    /\ \A i \in Arms(agent) : agent.counts[i] > 0

\* C2: total_pulls equals the number of update calls that succeeded and
\* equals the sum of counts, in every reachable state.
TotalPullsCountsUpdates ==
    /\ agent.total_pulls = nUpdates
    /\ agent.total_pulls = SumOver(agent.counts, Arms(agent))

\* C2 witness: two updates succeeded and the last update call was rejected
TotalPullsCountsUpdatesWitness ==
    /\ nUpdates = 2
    /\ last.op = "update"
    /\ last.err = "IndexError"

\* C3: update with an arm index outside [0, n_arms) fails and leaves the
\* whole agent state unchanged.
InvalidArmRejected ==
    [][(last'.op = "update" /\ last'.arm \notin Arms(agent))
          => (last'.err # "none" /\ agent' = agent)]_vars

\* C8: for a ThompsonSampling agent alpha[i] + beta[i] = 2 + counts[i] for
\* every arm i, in every reachable state.
ThompsonPosteriorCount ==
    agent.algorithm = "thompson_sampling" =>
        \A i \in Arms(agent) : agent.alpha[i] + agent.beta[i] = 2 + agent.counts[i]

\* C8 witness: an arm that has recorded both a success and a failure
ThompsonPosteriorCountWitness ==
    /\ agent.algorithm = "thompson_sampling"
    /\ \E i \in Arms(agent) :
          agent.counts[i] = 2 /\ agent.alpha[i] = 2 /\ agent.beta[i] = 2

\* C9: on a ThompsonSampling agent update(arm, 1.0) adds exactly 1 to
\* alpha[arm] and leaves beta alone, update(arm, 0.0) adds exactly 1 to
\* beta[arm] and leaves alpha alone, whatever the draw; the other arms keep
\* their alpha and beta.
ThompsonBinaryUpdate ==
    [][(/\ agent.algorithm = "thompson_sampling"
        /\ last'.op = "update"
        /\ last'.err = "none")
          => LET i == Resolve(agent.n_arms, last'.arm)
             IN  /\ last'.reward = ROne =>
                       /\ agent'.alpha = [agent.alpha EXCEPT ![i] = @ + 1]
                       /\ agent'.beta = agent.beta
                 /\ last'.reward = RZero =>
                       /\ agent'.beta = [agent.beta EXCEPT ![i] = @ + 1]
                       /\ agent'.alpha = agent.alpha]_vars

\* C9 witness: one arm has taken update(., 1.0), and update(arm, 0.0) has
\* just been applied to another arm
ThompsonBinaryUpdateWitness ==
    /\ agent.algorithm = "thompson_sampling"
    /\ last.op = "update"
    /\ last.err = "none"
    /\ last.reward = RZero
    /\ last.arm \in Arms(agent)
    /\ agent.beta[last.arm] = 2
    /\ \E i \in Arms(agent) :
          /\ i # last.arm
          /\ agent.counts[i] = 1
          /\ agent.values[i] = ROne
          /\ agent.alpha[i] = 2

\* C10: an EpsilonGreedy agent with epsilon = 0 only returns arms whose value
\* is the maximum of values; when one arm is strictly best it is the only
\* arm returned.
GreedyReturnsBestArm ==
    (/\ agent.algorithm = "epsilon_greedy"
     /\ agent.epsilon = RZero
     /\ last.op = "select_arm")
        => \A j \in Arms(agent) :
              ~RLess(agent.values[last.ret], agent.values[j])

\* C10 witness: two arms, a single update(1, 1.0), then select_arm returned 1
GreedyReturnsBestArmWitness ==
    /\ agent.algorithm = "epsilon_greedy"
    /\ agent.epsilon = RZero
    /\ agent.n_arms = 2
    /\ agent.total_pulls = 1
    /\ agent.values[1] = ROne
    /\ last.op = "select_arm"
    /\ last.ret = 1

-----------------------------------------------------------------------------
(* Properties of the UCB warm-up *)

\* C6: on a fresh UCB agent with N arms, N consecutive select_arm calls with
\* no update in between return every index of 0 .. N-1 exactly once.
WarmupEnumeratesArms ==
    (nUpdates = 0 /\ Len(selections) = agent.n_arms)
        => \A a \in Arms(agent) :
              Cardinality({k \in 1 .. Len(selections) : selections[k] = a}) = 1

\* C6 witness: N >= 2 selections made, no update yet
WarmupEnumeratesArmsWitness ==
    /\ agent.n_arms >= 2
    /\ nUpdates = 0
    /\ Len(selections) = agent.n_arms
    /\ agent.pending = Arms(agent)

\* C7: on a fresh UCB agent, when every select_arm is followed by
\* update(returned arm, r), the first N select_arm calls return 0, 1, ...,
\* N-1 in this order.
WarmupInIndexOrder ==
    paired => \A k \in 1 .. Len(selections) : selections[k] = k - 1

\* C7 witness: N >= 2 rounds of select_arm then update(returned arm, r)
WarmupInIndexOrderWitness ==
    /\ paired
    /\ agent.n_arms >= 2
    /\ Len(selections) = agent.n_arms
    /\ nUpdates = agent.n_arms
    /\ awaiting = {}

-----------------------------------------------------------------------------
(* Properties of concurrent callers *)

\* the agent as its constructor leaves it
Fresh(ag) ==
    CASE ag.algorithm = "ucb" -> UCB(ag.n_arms, ag.c)
      [] ag.algorithm = "thompson_sampling" -> ThompsonSampling(ag.n_arms)
      [] OTHER -> EpsilonGreedy(ag.n_arms, ag.epsilon)

\* what a handler running alone on agent ag can answer to the call, and the
\* agent it leaves
AloneOutcomes(ag, call) ==
    IF call.op = "select_arm"
    THEN {[agent |-> o.agent, ret |-> o.ret, err |-> "none"] :
             o \in SelectOutcomes(ag)}
    ELSE {LET o == AgentUpdate(ag, call.arm, call.reward, u)
          IN  [agent |-> o.agent, ret |-> 0,
               err |-> IF o.err = "none" THEN "TypeError" ELSE o.err] :
             u \in Draws}

Answers(o, call) ==
    o.ret = call.ret /\ o.err = call.err

\* C4: calls on the same experiment never interleave, so once two concurrent
\* calls have returned, their answers and the agent they leave are those of
\* running the two calls one after the other, in one of the two orders.
ConcurrentCallsSerializable ==
    (\A t \in Threads : done[t].n = 1)
        => \E t1 \in Threads, t2 \in Threads :
              /\ t1 # t2
              /\ \E o1 \in AloneOutcomes(Fresh(agent), done[t1]) :
                    /\ Answers(o1, done[t1])
                    /\ \E o2 \in AloneOutcomes(o1.agent, done[t2]) :
                          /\ Answers(o2, done[t2])
                          /\ o2.agent = agent

\* C5: two select_arm calls running concurrently on a fresh UCB experiment,
\* with no update, return two distinct arms.
ConcurrentSelectsDistinct ==
    (/\ agent.algorithm = "ucb"
     /\ agent.n_arms >= 2
     /\ \A t \in Threads : done[t].n = 1 /\ done[t].op = "select_arm")
        => done["t1"].ret # done["t2"].ret

-----------------------------------------------------------------------------
RECURSIVE RSumOver(_, _)
RSumOver(f, S) ==
    IF S = {}
    THEN RZero
    ELSE LET x == CHOOSE y \in S : TRUE
         IN  RAdd(f[x], RSumOver(f, S \ {x}))

\* C11: values[i] is the arithmetic mean of the rewards reported for arm i
\* (0 when none was), so total_reward is the sum of counts[i] * values[i].
ValuesAreArithmeticMeans ==
    /\ \A i \in Arms(agent) :
          agent.values[i] = IF agent.counts[i] = 0
                            THEN RZero
                            ELSE RMul(sums[i], Rat(1, agent.counts[i]))
    /\ agent.total_reward =
          RSumOver([i \in Arms(agent) |-> RMul(Rat(agent.counts[i], 1), agent.values[i])],
                   Arms(agent))

\* an arm that was given three rewards of which one differs, and another arm
\* that was given none
ValuesAreArithmeticMeansWitness ==
    /\ agent.n_arms = 2
    /\ agent.counts[0] = 3
    /\ agent.counts[1] = 0
    /\ agent.values[0] = Rat(2, 3)
    /\ last.op = "update"

\* C12: save_state succeeds in every reachable state, and loading the file
\* into a fresh agent of the same algorithm restores counts, values,
\* total_reward, total_pulls and the fields of the algorithm (epsilon; c;
\* alpha, beta).
SaveLoadRoundTrip ==
    [][last'.op = "save_state" =>
          /\ last'.err = "none"
          /\ AgentFile \in DOMAIN store'
          /\ LET l == LoadState(Fresh(agent), store'[AgentFile])
             IN  /\ l.err = "none"
                 /\ \A f \in {"counts", "values", "total_reward", "total_pulls",
                               "epsilon", "c", "alpha", "beta"} :
                        l.agent[f] = agent[f]]_vars

-----------------------------------------------------------------------------
(* Properties of the experiment manager *)

\* the fields of an experiment that a restart is to bring back
Persistent(e) ==
    [algorithm |-> e.algorithm, arm_names |-> e.agent.arm_names,
     counts |-> e.agent.counts, values |-> e.agent.values,
     total_pulls |-> e.agent.total_pulls, total_reward |-> e.agent.total_reward,
     epsilon |-> e.agent.epsilon, c |-> e.agent.c,
     alpha |-> e.agent.alpha, beta |-> e.agent.beta]

ValidArms(arms) ==
    /\ Len(arms) >= 2
    /\ \A i, j \in 1 .. Len(arms) : arms[i] = arms[j] => i = j

\* C14: create with a name not registered, at least two distinct arm names
\* and a recognized algorithm succeeds; the experiment is then registered
\* with all counts 0 and total_pulls 0, and the directory holds a file for
\* it with that initial state.
CreateSucceedsAndPersists ==
    [][\A name \in Names, arms \in ArmLists, algorithm \in Algorithms :
          (/\ name \notin DOMAIN experiments
           /\ ValidArms(arms)
           /\ resp'.op = "create"
           /\ resp'.name = name
           /\ Create(name, arms, algorithm, DefaultEpsilon))
          => /\ resp'.err = "none"
             /\ name \in DOMAIN experiments'
             /\ experiments'[name].agent.total_pulls = 0
             /\ \A i \in Arms(experiments'[name].agent) :
                   experiments'[name].agent.counts[i] = 0
             /\ name \in DOMAIN store'
             /\ store'[name].total_pulls = 0
             /\ store'[name].counts = experiments'[name].agent.counts]_vars

\* C15: create with a name that is registered fails with ValueError
\* "already exists", and neither the registered experiment (agent state,
\* algorithm, created_at) nor the files of the directory change.
DuplicateCreateRejected ==
    [][(/\ resp'.op = "create"
        /\ resp'.name \in DOMAIN experiments
        /\ \E arms \in ArmLists, algorithm \in AlgorithmInputs :
              Create(resp'.name, arms, algorithm, DefaultEpsilon))
          => /\ resp'.err = "ValueError"
             /\ resp'.msg = "already exists"
             /\ experiments' = experiments
             /\ store' = store]_vars

\* a create was refused for the name of an experiment that has been updated
\* and has a file in the directory
DuplicateCreateRejectedWitness ==
    /\ resp.op = "create"
    /\ resp.msg = "already exists"
    /\ resp.name \in DOMAIN experiments
    /\ experiments[resp.name].agent.total_pulls = 1
    /\ experiments[resp.name].created_at = 0
    /\ resp.name \in DOMAIN store

\* C16: create fails with ValueError and registers nothing when fewer than
\* two arms are given, when two arm names are equal, or when the algorithm
\* is not recognized; so every registered experiment has at least two arms,
\* and the number of arms of an experiment never changes.
InvalidCreateRejected ==
    [][/\ \A name \in Names, arms \in ArmLists, algorithm \in AlgorithmInputs :
            (/\ ~ValidArms(arms) \/ algorithm \notin Algorithms
             /\ resp'.op = "create"
             /\ resp'.name = name
             /\ Create(name, arms, algorithm, DefaultEpsilon))
            => /\ resp'.err = "ValueError"
               /\ experiments' = experiments
       /\ \A n \in DOMAIN experiments' : experiments'[n].agent.n_arms >= 2
       /\ \A n \in DOMAIN experiments \cap DOMAIN experiments' :
            resp'.op # "create" =>
                experiments'[n].agent.n_arms = experiments[n].agent.n_arms]_vars

\* C17: select_arm, update_reward, get_stats and delete on a name that is
\* not registered fail with ValueError "not found" and change neither the
\* registry nor the directory; select_arm on a registered name returns
\* (index, arm name) where the arm name is arm_names[index].
UnknownNameNotFound ==
    [][/\ (/\ resp'.op \in {"select_arm", "update_reward", "get_stats", "delete"}
            /\ resp'.name \notin DOMAIN experiments)
           => /\ resp'.err = "ValueError"
              /\ resp'.msg = "not found"
              /\ experiments' = experiments
              /\ store' = store
       /\ (/\ resp'.op = "select_arm"
            /\ resp'.name \in DOMAIN experiments)
           => /\ resp'.err = "none"
              /\ resp'.arm_index \in Arms(experiments[resp'.name].agent)
              /\ resp'.arm_name =
                     experiments[resp'.name].agent.arm_names[resp'.arm_index + 1]]_vars

\* C18: when the write of the file that update_reward or create triggers
\* fails, the call still answers with success, and the change made to the
\* registered experiment is kept.
FailedWriteStillSucceeds ==
    [][/\ resp'.op \in {"update_reward", "create"}
       /\ resp'.name \in DOMAIN experiments'
       /\ SaveExperimentFile(experiments', store, resp'.name, clock).err # "none"
       /\ resp'.err \notin {"ValueError", "IndexError"}
       => /\ resp'.err = "none"
          /\ experiments' # experiments]_vars

\* a file holding what load_all_experiments and load_state need, naming one
\* of the three algorithms
ValidFile(state) ==
    /\ {"algorithm", "n_arms", "counts", "values", "total_reward", "total_pulls"}
          \subseteq DOMAIN state
    /\ state.algorithm \in Algorithms
    /\ state.n_arms > 0

\* C19: load_all_experiments passes over a file that lacks required fields
\* or names an unknown algorithm, without failing: that file is not
\* registered, every valid file of the directory is, and the returned count
\* is the number of experiments the call registered.
LoadAllSkipsInvalid ==
    [][resp'.op = "load_all" =>
          /\ resp'.err = "none"
          /\ \A n \in DOMAIN store :
                (n \in DOMAIN experiments') <=> ValidFile(store[n])
          /\ resp'.count = Cardinality(DOMAIN experiments')]_vars

-----------------------------------------------------------------------------
\* C20: after three rounds of select_arm followed by update(returned arm,
\* 0.0) on a UCB agent with 3 arms all counts are 1, and the fourth
\* select_arm takes the formula path and returns index 0; in general, when
\* all arms have counts > 0 and their scores tie (equal counts and equal
\* values), select_arm returns the lowest index.
TiedScoresReturnLowest ==
    /\ (/\ agent.n_arms = 3
        /\ paired
        /\ nUpdates = 3
        /\ agent.total_reward = RZero)
       => /\ \A i \in Arms(agent) : agent.counts[i] = 1
          /\ last.op = "select_arm" => (WarmupArms(agent) = {} /\ last.ret = 0)
    /\ (/\ last.op = "select_arm"
        /\ \A i \in Arms(agent) : agent.counts[i] > 0
        /\ \A i, j \in Arms(agent) :
              agent.counts[i] = agent.counts[j] /\ agent.values[i] = agent.values[j])
       => last.ret = 0

\* the fourth select_arm of the scenario has returned
TiedScoresReturnLowestWitness ==
    /\ agent.n_arms = 3
    /\ paired
    /\ nUpdates = 3
    /\ agent.total_reward = RZero
    /\ \A i \in Arms(agent) : agent.counts[i] = 1
    /\ last.op = "select_arm"
    /\ last.ret = 0
    /\ awaiting = {0}

-----------------------------------------------------------------------------
\* C21: in every reachable state of every agent, an arm that was never
\* updated (counts[i] = 0) has the value estimate 0.
UnpulledArmHasZeroValue ==
    \A i \in Arms(agent) : agent.counts[i] = 0 => agent.values[i] = RZero

\* one arm has been rewarded, the other one has not been updated yet
UnpulledArmHasZeroValueWitness ==
    /\ agent.n_arms = 2
    /\ agent.counts[0] = 0
    /\ agent.counts[1] = 2
    /\ agent.values[1] = ROne
    /\ last.op = "update"
    /\ last.err = "none"

-----------------------------------------------------------------------------
\* C22: get_stats changes nothing: counts, values, total_pulls, total_reward
\* and the fields of the algorithm (the pending set of UCB included) are as
\* before, and it reports average_reward = total_reward / max(total_pulls, 1),
\* which is 0 for an experiment without pulls.
GetStatsIsPureRead ==
    [][(resp'.op = "get_stats" /\ resp'.name \in DOMAIN experiments) =>
          LET ag == experiments[resp'.name].agent
          IN  /\ resp'.err = "none"
              /\ experiments' = experiments
              /\ store' = store
              /\ resp'.stats.total_pulls = ag.total_pulls
              /\ resp'.stats.total_reward = ag.total_reward
              /\ resp'.stats.arm_counts = ag.counts
              /\ resp'.stats.arm_values = ag.values
              /\ resp'.stats.average_reward =
                    IF ag.total_pulls = 0
                    THEN RZero
                    ELSE RMul(ag.total_reward, Rat(1, ag.total_pulls))]_vars

\* the statistics of a UCB experiment were read while an arm it had
\* dispatched was still awaiting its reward
GetStatsIsPureReadWitness ==
    /\ resp.op = "get_stats"
    /\ resp.err = "none"
    /\ resp.name \in DOMAIN experiments
    /\ experiments[resp.name].algorithm = "ucb"
    /\ experiments[resp.name].agent.pending = {0}
    /\ resp.stats.total_pulls = 0
    /\ resp.stats.average_reward = RZero

-----------------------------------------------------------------------------
\* C23: whenever UCB select_arm takes the formula path (it returns without
\* adding an arm to pending), every arm has counts > 0; no result comes from
\* the formula while some arm has counts = 0, even when all such arms are
\* in pending.
FormulaOnlyWhenAllPulled ==
    [][(last'.op = "select_arm" /\ agent'.pending = agent.pending) =>
          \A a \in Arms(agent) : agent.counts[a] > 0]_vars

\* C23 as amended: whenever UCB select_arm takes the formula path, every
\* arm has counts > 0 or is in pending.
FormulaOnlyWhenAllVisited ==
    [][(last'.op = "select_arm" /\ agent'.pending = agent.pending) =>
          \A a \in Arms(agent) : agent.counts[a] > 0 \/ a \in agent.pending]_vars

\* select_arm has answered from the formula while an arm it had dispatched
\* was still without a reward
FormulaOnlyWhenAllVisitedWitness ==
    /\ last.op = "select_arm"
    /\ last.ret = 0
    /\ agent.n_arms = 2
    /\ agent.counts[0] = 1
    /\ agent.values[0] = ROne
    /\ agent.counts[1] = 0
    /\ agent.pending = {1}

\* C24: in the warm-up phase UCB select_arm returns the lowest arm a with
\* counts[a] = 0 that is not in pending, and changes nothing but pending,
\* to which it adds a; on the formula path it changes nothing at all.
WarmupSelectOnlyAddsPending ==
    [][last'.op = "select_arm" =>
          LET W == {a \in Arms(agent) : agent.counts[a] = 0 /\ a \notin agent.pending}
          IN  IF W # {}
              THEN /\ last'.ret \in W
                   /\ \A a \in W : last'.ret <= a
                   /\ agent' = [agent EXCEPT !.pending = @ \cup {last'.ret}]
              ELSE agent' = agent]_vars

\* the second arm was dispatched after the first one had been rewarded
WarmupSelectOnlyAddsPendingWitness ==
    /\ last.op = "select_arm"
    /\ last.ret = 1
    /\ agent.n_arms = 3
    /\ agent.counts[0] = 1
    /\ agent.values[0] = ROne
    /\ agent.pending = {1}
    /\ agent.total_pulls = 1

-----------------------------------------------------------------------------
\* C25: the pending set of a UCB agent holds only arms with counts = 0: no
\* arm that has been updated is a member of pending.
PendingOnlyUnpulled ==
    \A a \in agent.pending : agent.counts[a] = 0

-----------------------------------------------------------------------------
\* C26: the pending set of UCB is not written to the files, and after a
\* reload the pending set of the agent is empty, so that every arm with
\* counts = 0 in the loaded state is up for a warm-up select_arm.
ReloadResetsPending ==
    [][resp'.op = "load_all" =>
          \A n \in DOMAIN store :
              (ValidFile(store[n]) /\ store[n].algorithm = "ucb") =>
                  /\ "pending" \notin DOMAIN store[n]
                  /\ n \in DOMAIN experiments'
                  /\ experiments'[n].agent.pending = {}
                  /\ WarmupArms(experiments'[n].agent) =
                        {a \in 0 .. (store[n].n_arms - 1) : store[n].counts[a] = 0}]_vars

NoLostUpdates ==
    (\A t \in Threads : /\ done[t].n = 1
                        /\ done[t].op = "update"
                        /\ done[t].arm \in Arms(agent)
                        /\ done[t].err = "TypeError")
        => /\ agent.total_pulls = Cardinality(Threads)
           /\ SumOver(agent.counts, Arms(agent)) = Cardinality(Threads)
           /\ \A a \in Arms(agent) :
                 agent.counts[a] = Cardinality({t \in Threads : done[t].arm = a})

\* C29: when two callers create the same fresh name concurrently (at least two
\* distinct arms, a recognized algorithm) and both calls have returned, exactly
\* one has succeeded and the other has failed with "already exists", and the
\* registry holds for that name the agent the successful call constructed.
ConcurrentCreateOneWins ==
    (/\ \A t \in Threads : /\ done[t].n = 1
                           /\ ValidArms(done[t].arms)
                           /\ done[t].algorithm \in Algorithms
     /\ \A t1 \in Threads, t2 \in Threads : done[t1].name = done[t2].name)
        => \E t1 \in Threads, t2 \in Threads :
              /\ t1 # t2
              /\ done[t1].err = "none"
              /\ done[t2].err = "ValueError"
              /\ done[t2].msg = "already exists"
              /\ done[t1].name \in DOMAIN experiments
              /\ experiments[done[t1].name].agent =
                    NewAgent(done[t1].algorithm, done[t1].arms, DefaultEpsilon)

CountsNeverDecrease ==
    [][/\ resp'.op \in {"select_arm", "update_reward", "get_stats", "list"}
             => \A n \in DOMAIN experiments :
                   /\ n \in DOMAIN experiments'
                   /\ \A i \in Arms(experiments[n].agent) :
                         experiments'[n].agent.counts[i]
                             >= experiments[n].agent.counts[i]
       /\ \A n \in DOMAIN experiments' :
             LET ag == experiments'[n].agent
             IN  /\ DOMAIN ag.counts = 0 .. (ag.n_arms - 1)
                 /\ DOMAIN ag.values = 0 .. (ag.n_arms - 1)]_vars

\* the experiments were listed after an update had raised a count
CountsNeverDecreaseWitness ==
    /\ resp.op = "list"
    /\ \E n \in DOMAIN experiments :
          /\ experiments[n].agent.total_pulls > 0
          /\ \E i \in Arms(experiments[n].agent) : experiments[n].agent.counts[i] > 0
          /\ \E e \in resp.entries : e.name = n /\ e.total_pulls > 0

\* C34: a create call that ends in an error ("already exists", an invalid
\* configuration, or a failure while the initial state is written) leaves
\* the registry exactly as it was: no experiment is registered by a failed
\* create.
FailedCreateLeavesRegistry ==
    [][(resp'.op = "create" /\ resp'.err # "none") => experiments' = experiments]_vars

\* C35: the warm-up of UCB completes: when select_arm is called again and
\* again and every arm it returns is eventually reported with update,
\* eventually every arm has counts > 0, and from then on pending is empty
\* and no arm qualifies for warm-up, so every select_arm takes the formula
\* path.
WarmupCompletes ==
    <>[](/\ UnpulledArms(agent) = {}
         /\ agent.pending = {}
         /\ WarmupArms(agent) = {})

\* with two arms pulled once each, select_arm has answered from the formula
WarmupCompletesWitness ==
    /\ agent.n_arms = 2
    /\ UnpulledArms(agent) = {}
    /\ agent.pending = {}
    /\ agent.total_pulls = 2
    /\ last.op = "select_arm"
    /\ last.ret \in awaiting

\* C36: select_arm of an EpsilonGreedy or ThompsonSampling experiment
\* changes no state of the agent (counts, values, total_pulls, total_reward,
\* epsilon, alpha, beta), and select_arm of no algorithm writes to the
\* storage directory.
SelectArmReadsOnly ==
    [][resp'.op = "select_arm" =>
          /\ store' = store
          /\ DOMAIN experiments' = DOMAIN experiments
          /\ \A n \in DOMAIN experiments :
                experiments[n].agent.algorithm \in {"epsilon_greedy", "thompson_sampling"}
                    => experiments'[n] = experiments[n]]_vars

\* an arm was selected for an EpsilonGreedy or ThompsonSampling experiment
\* that had been updated
SelectArmReadsOnlyWitness ==
    /\ resp.op = "select_arm"
    /\ resp.err = "none"
    /\ resp.name \in DOMAIN experiments
    /\ experiments[resp.name].agent.algorithm \in {"epsilon_greedy", "thompson_sampling"}
    /\ experiments[resp.name].agent.total_pulls > 0

====
